---- MODULE Spec2Model ----
(***************************************************************************)
(* hue_mie: the scene reconciliation loop of src/src/main.rs.              *)
(*                                                                         *)
(* The bridge is the environment: the answer to every request is drawn     *)
(* when the request is made.  An Option<T> is a sequence of length 0       *)
(* (None) or 1 (Some(x)); a Result is a record with an ok flag.            *)
(***************************************************************************)
EXTENDS Integers, Sequences, FiniteSets, TLC

\* ------------------------------------------------------------------ bounds
NumScenes == 2
NumLights == 2
NumGroups == 2

\* ------------------------------------------------------------------ values
None == <<>>
Some(x) == <<x>>

LightIds == 1..NumLights

\* Vec<usize> of light ids as the bridge returns it: any order, no duplicates.
LightLists ==
    {s \in UNION {[1..n -> LightIds] : n \in 0..NumLights} :
        \A i, j \in DOMAIN s : i # j => s[i] # s[j]}

Range(s) == {s[i] : i \in DOMAIN s}

\* Keys of a BTreeMap<usize, _> in iteration (ascending) order.
RECURSIVE SortedKeys(_)
SortedKeys(S) ==
    IF S = {} THEN <<>>
    ELSE LET m == CHOOSE x \in S : \A y \in S : x <= y
         IN  <<m>> \o SortedKeys(S \ {m})

\* ------------------------------------------------------ managed-scene filter
UpperToLower ==
    [c \in {"A","B","C","D","E","F","G","H","I","J","K","L","M",
            "N","O","P","Q","R","S","T","U","V","W","X","Y","Z"} |->
        CASE c = "A" -> "a" [] c = "B" -> "b" [] c = "C" -> "c" [] c = "D" -> "d"
          [] c = "E" -> "e" [] c = "F" -> "f" [] c = "G" -> "g" [] c = "H" -> "h"
          [] c = "I" -> "i" [] c = "J" -> "j" [] c = "K" -> "k" [] c = "L" -> "l"
          [] c = "M" -> "m" [] c = "N" -> "n" [] c = "O" -> "o" [] c = "P" -> "p"
          [] c = "Q" -> "q" [] c = "R" -> "r" [] c = "S" -> "s" [] c = "T" -> "t"
          [] c = "U" -> "u" [] c = "V" -> "v" [] c = "W" -> "w" [] c = "X" -> "x"
          [] c = "Y" -> "y" [] c = "Z" -> "z"]

\* str::to_lowercase on a name held as a sequence of characters.
ToLowercase(name) ==
    [i \in DOMAIN name |->
        IF name[i] \in DOMAIN UpperToLower THEN UpperToLower[name[i]] ELSE name[i]]

\* str::contains
Contains(hay, needle) ==
    \E i \in 0..(Len(hay) - Len(needle)) :
        SubSeq(hay, i + 1, i + Len(needle)) = needle

Marker == <<"d", "a", "y", "s", "h", "i", "f", "t">>

\* Faulty variant of the filter: the recycle flag not looked at.
IsManagedIgnoringRecycle(scene) ==
    Contains(ToLowercase(scene.name), Marker)

\* The two filters of update_scenes.
IsManaged(scene) ==
    /\ Contains(ToLowercase(scene.name), Marker)
    /\ ~scene.recycle

\* ----------------------------------------------------------- tolerance tests
I16Diff(left, right) == IF left > right THEN left - right ELSE right - left

I16IsClose(left, right) == I16Diff(left, right) < 40

I8Diff(left, right) == IF left > right THEN left - right ELSE right - left

I8IsCloseInclusive(left, right) == I8Diff(left, right) <= 6

I8IsClose(left, right) == I8Diff(left, right) < 6

\* The closure body of scene_is_active for one light: ls is the state stored
\* in the scene, tl the live state of the light.
LightMatches(ls, tl) ==
    /\ (ls.bri = None \/ I8IsClose(ls.bri[1], tl.bri))
    /\ (tl.ct = None \/ ls.ct = None \/ I16IsClose(tl.ct[1], ls.ct[1]))
    /\ Some(tl.on) = ls.on

\* scene_is_active: the fold over lightstates in key order.  live[id] is the
\* answer of get_light(id); a light is only asked for while the accumulator is
\* still true, and a failed get_light is unwrapped (panic).
RECURSIVE SceneIsActiveFrom(_, _, _, _, _)
SceneIsActiveFrom(keys, i, b, lightstates, live) ==
    IF i > Len(keys) THEN [active |-> b, reads |-> <<>>, panicked |-> FALSE]
    ELSE IF ~b THEN SceneIsActiveFrom(keys, i + 1, FALSE, lightstates, live)
    ELSE LET id == keys[i] IN
         IF ~live[id].ok
         THEN [active |-> FALSE, reads |-> <<id>>, panicked |-> TRUE]
         ELSE LET rest == SceneIsActiveFrom(keys, i + 1,
                              LightMatches(lightstates[id], live[id].state),
                              lightstates, live)
              IN  [rest EXCEPT !.reads = <<id>> \o @]

\* Faulty variant: a scene without stored light states counts as inactive.
SceneIsActiveNonEmpty(lightstates, live) ==
    LET r == SceneIsActiveFrom(SortedKeys(DOMAIN lightstates), 1, TRUE,
                               lightstates, live)
    IN  [r EXCEPT !.active = @ /\ DOMAIN lightstates # {}]

SceneIsActive(lightstates, live) ==
    SceneIsActiveFrom(SortedKeys(DOMAIN lightstates), 1, TRUE, lightstates, live)

\* --------------------------------------------------------------- update_scene
\* slice::binary_search of the member list for a light id (0-based index).
RECURSIVE BinarySearchFrom(_, _, _, _)
BinarySearchFrom(lights, x, base, size) ==
    IF size > 1
    THEN LET half == size \div 2
             mid  == base + half
         IN  BinarySearchFrom(lights, x,
                 IF lights[mid + 1] > x THEN base ELSE mid, size - half)
    ELSE IF lights[base + 1] = x
         THEN [found |-> TRUE, idx |-> base]
         ELSE [found |-> FALSE, idx |-> base + (IF lights[base + 1] < x THEN 1 ELSE 0)]

BinarySearch(lights, x) ==
    IF Len(lights) = 0 THEN [found |-> FALSE, idx |-> 0]
    ELSE BinarySearchFrom(lights, x, 0, Len(lights))

\* A request the reconciler sends to the bridge (id: the light or group asked
\* for, 0 where there is none), or its 150 ms sleep.
Call(op, id) == [op |-> op, id |-> id]

\* Faulty variant: a failed push ends the loop over the scene's lights.
NextLightBreakOnErr(i, n, pushed) == IF pushed THEN i + 1 ELSE n + 1

\* Where the for loop of update_scene goes after the light at position i of n:
\* both match arms of set_light_state_in_scene fall through to the next light.
NextLight(i, n, pushed) == i + 1

\* The bridge calls of update_scene from position i of the stored states on;
\* result[id] is TRUE when the bridge accepts the push for light id.
RECURSIVE UpdateSceneFrom(_, _, _, _)
UpdateSceneFrom(keys, i, lights, result) ==
    IF i > Len(keys) THEN <<>>
    ELSE LET id == keys[i] IN
         IF BinarySearch(lights, id).found
         THEN <<Call("set_light_state_in_scene", id)>>
                  \o UpdateSceneFrom(keys, NextLight(i, Len(keys), result[id]),
                                     lights, result)
         ELSE UpdateSceneFrom(keys, i + 1, lights, result)

\* ------------------------------------------------------------- LightTarget
\* Angles and phases are f64 radians; they are kept as whole twelfths of a
\* full turn, and cos is sampled there, in thousandths.
CosMilli ==
    <<1000, 866, 500, 0, -500, -866, -1000, -866, -500, 0, 500, 866>>

\* PI * 2.
Period == Len(CosMilli)

\* Largest angle, either way, a target is rotated by.
MaxAngle == 13

\* The % of f64: the remainder takes the sign of the dividend.
Rem(x, m) == IF x >= 0 THEN x % m ELSE -((-x) % m)

Phases == (1 - Period)..(Period - 1)

Angles == (-MaxAngle)..MaxAngle

LightTargets ==
    [bri : {700},
     mired : {300},
     bri_phase : Phases,
     mired_phase : Phases,
     bri_amplitude : {30},
     mired_amplitude : {50}]

\* Faulty variant: the phases are set to the angle, not advanced by it.
RotateReplacingPhase(t, angle) ==
    [t EXCEPT !.bri_phase = Rem(angle, Period),
              !.mired_phase = Rem(angle, Period)]

Rotate(t, angle) ==
    [t EXCEPT !.bri_phase = Rem(@ + angle, Period),
              !.mired_phase = Rem(@ + angle, Period)]

\* f64::cos of a phase.
Cos(phase) == CosMilli[(phase % Period) + 1]

\* f64::max and f64::min
F64Max(x, y) == IF x >= y THEN x ELSE y

F64Min(x, y) == IF x <= y THEN x ELSE y

\* An f64 in thousandths cast with `as` to an unsigned integer that holds
\* 0..max: the fraction is dropped, the value saturates at both ends.
Trunc(v) == IF v >= 0 THEN v \div 1000 ELSE -((-v) \div 1000)

AsUnsigned(v, max) == F64Min(F64Max(Trunc(v), 0), max)

\* The formula values before clamping, in thousandths.
BriValue(t) == Cos(t.bri_phase) * t.bri_amplitude + t.bri * 255

CtValue(t) == Cos(t.mired_phase) * t.mired_amplitude + t.mired * 1000

Ct(t) == AsUnsigned(F64Min(F64Max(CtValue(t), 0), 65535 * 1000), 65535)

\* Faulty variant: no clamping, and a cast that keeps the low eight bits.
BriWrapping(t) == Trunc(BriValue(t)) % 256

Bri(t) == AsUnsigned(F64Min(F64Max(BriValue(t), 0), 255 * 1000), 255)

\* ------------------------------------------------------------ update_scene
\* Faulty variant: the rotation divides by the number of stored states.
RotationOverStored(idx, lights, lightstates) ==
    [num |-> idx, den |-> Cardinality(DOMAIN lightstates)]

\* let rotation = ((idx as f64) / (scene.lights.len() as f64)) * PI * 2.;
\* kept as the fraction of a full period.
Rotation(idx, lights, lightstates) == [num |-> idx, den |-> Len(lights)]

\* The rotation as an angle.
RotationAngle(rotation) == (rotation.num * Period) \div rotation.den

\* The light_target argument of update_scenes: LightTarget::new of the pass.
PassTargets ==
    [bri : {700},
     mired : {300},
     bri_phase : {0, 7},
     mired_phase : {3},
     bri_amplitude : {30},
     mired_amplitude : {50}]

\* What update_scene pushes for a light it found at idx: the target it was
\* given, the rotation and the rotated target, and the bri, ct and on it writes
\* into the stored state of the light.
Push(id, lights, lightstates, light_target) ==
    LET idx == BinarySearch(lights, id).idx
        rotation == Rotation(idx, lights, lightstates)
        this_light_target == Rotate(light_target, RotationAngle(rotation))
    IN  [light |-> id,
         idx |-> idx,
         light_target |-> light_target,
         rotation |-> rotation,
         this_light_target |-> this_light_target,
         bri |-> Bri(this_light_target),
         ct |-> Ct(this_light_target),
         on |-> Bri(this_light_target) # 0]

UpdateSceneCalls(lights, lightstates, result) ==
    UpdateSceneFrom(SortedKeys(DOMAIN lightstates), 1, lights, result)

\* ------------------------------------------------------------ update_scenes
\* Faulty variant: the recycle flag of the group not looked at.
GroupSelectedIgnoringRecycle(group, scene) ==
    group.lights = scene.lights

\* The two filters over get_all_groups: Vec equality of the member lists, and
\* recycle.unwrap_or(false) false.
GroupSelected(group, scene) ==
    /\ group.lights = scene.lights
    /\ ~(IF group.recycle = None THEN FALSE ELSE group.recycle[1])

\* Faulty variant: the groups are recalled before the scene is rewritten.
SceneBodyRecallFirst == <<"scene_is_active", "recall", "update_scene", "sleep">>

\* Faulty variant: the scene is rewritten before its activity is detected.
SceneBodyUpdateFirst == <<"update_scene", "scene_is_active", "sleep", "recall">>

\* The statements of the Ok arm of get_scene_with_states, in source order.
SceneBody == <<"scene_is_active", "update_scene", "sleep", "recall">>

\* Where update_scenes goes when get_scene_with_states fails: the Err arm logs
\* and for_each takes the next scene.  Faulty variant: the pass is
\* given up.
AfterSceneErrAbort == "cycle_sleep"

AfterSceneErr == "scene_done"

\* Where main goes when get_all_scenes fails: the Err arm logs and the loop
\* body goes on to its sleep.  Faulty variant: the
\* scenes are reconciled all the same.
AfterScenesErrReconcile == "next_scene"

AfterScenesErr == "cycle_sleep"

\* ------------------------------------------------------------- input domains
SceneNames ==
    { <<"M", "y", " ", "D", "a", "y", "S", "h", "i", "f", "t">>,
      <<"D", "a", "y", " ", "s", "h", "i", "f", "t">> }

\* A scene as get_all_scenes lists it.
SceneEntries == [name : SceneNames, recycle : BOOLEAN, lights : LightLists]

\* A group as get_all_groups lists it.
GroupEntries == [lights : LightLists, recycle : {None, Some(TRUE), Some(FALSE)}]

\* LightStateChange stored in a scene, and the live LightState of a light.
StoredStates ==
    [bri : {None, Some(100)}, ct : {None, Some(300)}, on : {None, Some(TRUE)}]

LiveStates == [bri : {94, 100, 105}, ct : {None, Some(300), Some(340)}, on : BOOLEAN]

FullState == [bri |-> Some(100), ct |-> Some(300), on |-> Some(TRUE)]

Ok(state) == [ok |-> TRUE, state |-> state]
Err == [ok |-> FALSE]

\* The answers of get_light the reconciliation loop is run against.
LoopLive ==
    {Ok([bri |-> 105, ct |-> Some(300), on |-> TRUE]),
     Ok([bri |-> 94, ct |-> Some(300), on |-> TRUE]),
     Err}

\* BTreeMap<usize, LightStateChange> of a detailed scene.
LightStatesOver(states) ==
    UNION {[ids -> states] : ids \in SUBSET LightIds}

NoScene == [name |-> <<>>, recycle |-> FALSE, lights |-> <<>>]
NoGroup == [lights |-> <<>>, recycle |-> None]

\* -------------------------------------------------------------------- state
VARIABLES
    pc,            \* where main is: "loop", "get_all_scenes", "next_scene",
                   \* "get_scene", "body", "groups", "scene_done",
                   \* "cycle_sleep", "terminated"
    listFailed,    \* get_all_scenes answered Err in this cycle
    idx,           \* position of the scenes iterator (the scene id)
    sceneErrSeen,  \* some get_scene_with_states answered Err in this pass
    scene,         \* the scene the iterator is at, as listed
    lightstates,   \* s.lightstates of the detailed scene
    stage,         \* position in SceneBody
    scene_active,  \* the local scene_active, None before it is assigned
    pushFailed,    \* lights whose set_light_state_in_scene answered Err
    gidx,          \* position of the groups iterator (the group id)
    group,         \* the group the iterator is at
    log,           \* requests sent for the current scene, in order
    fetchFailed,   \* get_scene_with_states answered Err for the current scene
    panic,         \* the call whose unwrap panicked, "" if none
    live,          \* the get_light answers handed to the detector
    pushes,        \* what update_scene pushed for the current scene, in order
    args,          \* arguments of the function applied on its own
    ret,           \* what that function returned, None before the call
    config,        \* the configuration file: "unreadable", "malformed",
                   \* "no_hue", "with_hue"
    hue,           \* config.hue: None, or how the credentials were obtained
    linkPressed,   \* the link button of the bridge has been pressed
    answer,        \* last answer of register_user, "" before the first
    exit_status,   \* None while the process runs, else its exit status
    now,           \* SystemTime::now(), in seconds
    next_step,     \* the deadline of the current cycle
    slept,         \* the Duration handed to the last cycle sleep
    prev_start     \* when the cycle before the current one started

vars == <<pc, listFailed, idx, sceneErrSeen, scene, lightstates, stage,
          scene_active, pushFailed, gidx, group, log, fetchFailed, panic, live,
          pushes, args, ret, config, hue, linkPressed, answer, exit_status,
          now, next_step, slept, prev_start>>

fnVars == <<args, ret>>

bootVars == <<config, hue, linkPressed, answer, exit_status>>

clockVars == <<now, next_step, slept, prev_start>>

auxVars == <<fnVars, bootVars, clockVars>>

sceneVars == <<scene, lightstates, stage, scene_active, pushFailed, gidx,
               group, log, fetchFailed, pushes>>

passVars == <<listFailed, idx, sceneErrSeen>>

NoStates == [id \in {} |-> FullState]

\* The locals of one for_each iteration before the iterator yields.
FreshScene ==
    /\ scene' = NoScene
    /\ lightstates' = NoStates
    /\ stage' = 0
    /\ scene_active' = None
    /\ pushFailed' = {}
    /\ gidx' = 0
    /\ group' = NoGroup
    /\ log' = <<>>
    /\ fetchFailed' = FALSE
    /\ pushes' = <<>>

FreshPass ==
    /\ listFailed' = FALSE
    /\ idx' = 0
    /\ sceneErrSeen' = FALSE

\* No function is applied on its own.
NoCall ==
    /\ args = None
    /\ ret = None

\* setup_and_get_config has returned a configuration with credentials.
Booted ==
    /\ config = "with_hue"
    /\ hue = Some("file")
    /\ linkPressed = FALSE
    /\ answer = ""
    /\ exit_status = None

\* The clock is left out.
ClockUnused ==
    /\ now = 0
    /\ next_step = 0
    /\ slept = None
    /\ prev_start = None

\* main has loaded its configuration and built the bridge handle.
Init ==
    /\ pc = "loop"
    /\ listFailed = FALSE
    /\ idx = 0
    /\ sceneErrSeen = FALSE
    /\ scene = NoScene
    /\ lightstates = NoStates
    /\ stage = 0
    /\ scene_active = None
    /\ pushFailed = {}
    /\ gidx = 0
    /\ group = NoGroup
    /\ log = <<>>
    /\ fetchFailed = FALSE
    /\ panic = ""
    /\ live = NoStates
    /\ pushes = <<>>
    /\ NoCall
    /\ Booted
    /\ ClockUnused

\* ------------------------------------------------------------------ actions
\* Top of the loop: next_step and a fresh LightTarget.
LoopTop ==
    /\ pc = "loop"
    /\ pc' = "get_all_scenes"
    /\ UNCHANGED <<panic, live>>
    /\ UNCHANGED passVars
    /\ UNCHANGED sceneVars
    /\ UNCHANGED auxVars

\* bridge.get_all_scenes()
GetAllScenes ==
    /\ pc = "get_all_scenes"
    /\ \/ /\ listFailed' = FALSE
          /\ pc' = "next_scene"
       \/ /\ listFailed' = TRUE
          /\ pc' = AfterScenesErr
    /\ UNCHANGED <<idx, sceneErrSeen, panic, live>>
    /\ UNCHANGED sceneVars
    /\ UNCHANGED auxVars

\* scenes.iter().filter(..).filter(..): the iterator yields its next entry
\* (the map holds at most NumScenes), or is exhausted and update_scenes
\* returns.
NextScene ==
    /\ pc = "next_scene"
    /\ \/ /\ idx < NumScenes
          /\ \E entry \in SceneEntries :
                /\ scene' = entry
                /\ pc' = IF IsManaged(entry) THEN "get_scene" ELSE "scene_done"
          /\ idx' = idx + 1
          /\ UNCHANGED <<listFailed, sceneErrSeen>>
       \/ /\ pc' = "cycle_sleep"
          /\ UNCHANGED scene
          /\ UNCHANGED passVars
    /\ UNCHANGED <<lightstates, stage, scene_active, pushFailed, gidx, group,
                   log, fetchFailed, panic, live>>
    /\ UNCHANGED auxVars
    /\ UNCHANGED pushes

\* bridge.get_scene_with_states(&scene_id)
GetSceneWithStates ==
    /\ pc = "get_scene"
    /\ log' = Append(log, Call("get_scene_with_states", idx))
    /\ \/ \E ls \in LightStatesOver({FullState}) :
              /\ lightstates' = ls
              /\ stage' = 1
              /\ pc' = "body"
              /\ UNCHANGED <<fetchFailed, sceneErrSeen>>
       \/ /\ fetchFailed' = TRUE
          /\ sceneErrSeen' = TRUE
          /\ pc' = AfterSceneErr
          /\ UNCHANGED <<lightstates, stage>>
    /\ UNCHANGED <<listFailed, idx, scene, scene_active, pushFailed, gidx,
                   group, panic, live>>
    /\ UNCHANGED auxVars
    /\ UNCHANGED pushes

\* The statement of SceneBody at position s is done.
StageDone(s) ==
    IF s = Len(SceneBody)
    THEN pc' = "scene_done" /\ stage' = s
    ELSE pc' = "body" /\ stage' = s + 1

\* let scene_active = scene_is_active(&bridge, &s);
DetectActive ==
    /\ pc = "body"
    /\ SceneBody[stage] = "scene_is_active"
    /\ \E answers \in [DOMAIN lightstates -> LoopLive] :
          LET r == SceneIsActive(lightstates, answers) IN
          /\ log' = log \o [i \in DOMAIN r.reads |-> Call("get_light", r.reads[i])]
          /\ IF r.panicked
             THEN /\ pc' = "terminated"
                  /\ panic' = "get_light"
                  /\ UNCHANGED <<scene_active, stage>>
             ELSE /\ scene_active' = Some(r.active)
                  /\ StageDone(stage)
                  /\ UNCHANGED panic
    /\ UNCHANGED <<scene, lightstates, pushFailed, gidx, group, fetchFailed, live>>
    /\ UNCHANGED passVars
    /\ UNCHANGED auxVars
    /\ UNCHANGED pushes

\* update_scene(&bridge, &scene_id, &s, &light_target);
UpdateScene ==
    /\ pc = "body"
    /\ SceneBody[stage] = "update_scene"
    /\ \E result \in [DOMAIN lightstates -> BOOLEAN] :
          LET calls == UpdateSceneCalls(scene.lights, lightstates, result) IN
          /\ log' = log \o calls
          /\ pushFailed' = {calls[i].id : i \in {j \in DOMAIN calls : ~result[calls[j].id]}}
    /\ StageDone(stage)
    /\ UNCHANGED <<scene, lightstates, scene_active, gidx, group, fetchFailed,
                   panic, live>>
    /\ UNCHANGED passVars
    /\ UNCHANGED auxVars
    /\ UNCHANGED pushes

\* thread::sleep(150 ms) after update_scene
SleepAfterUpdate ==
    /\ pc = "body"
    /\ SceneBody[stage] = "sleep"
    /\ log' = Append(log, Call("sleep", 0))
    /\ StageDone(stage)
    /\ UNCHANGED <<scene, lightstates, scene_active, pushFailed, gidx, group,
                   fetchFailed, panic, live>>
    /\ UNCHANGED passVars
    /\ UNCHANGED auxVars
    /\ UNCHANGED pushes

\* if scene_active { bridge.get_all_groups().unwrap() ... }
RecallIfActive ==
    /\ pc = "body"
    /\ SceneBody[stage] = "recall"
    /\ IF scene_active = Some(TRUE)
       THEN /\ log' = Append(log, Call("get_all_groups", 0))
            /\ \/ /\ pc' = "groups"
                  /\ UNCHANGED panic
               \/ /\ pc' = "terminated"
                  /\ panic' = "get_all_groups"
            /\ UNCHANGED stage
       ELSE /\ StageDone(stage)
            /\ UNCHANGED <<log, panic>>
    /\ UNCHANGED <<scene, lightstates, scene_active, pushFailed, gidx, group,
                   fetchFailed, live>>
    /\ UNCHANGED passVars
    /\ UNCHANGED auxVars
    /\ UNCHANGED pushes

\* groups.iter().filter(..).filter(..).for_each(recall): the iterator yields
\* its next entry (the map holds at most NumGroups), or is exhausted.  The
\* result of recall_scene_in_group is dropped.
NextGroup ==
    /\ pc = "groups"
    /\ \/ /\ gidx < NumGroups
          /\ \E entry \in GroupEntries :
                /\ group' = entry
                /\ log' = IF GroupSelected(entry, scene)
                          THEN Append(log, Call("recall_scene_in_group", gidx + 1))
                          ELSE log
          /\ gidx' = gidx + 1
          /\ UNCHANGED <<pc, stage>>
       \/ /\ StageDone(stage)
          /\ UNCHANGED <<gidx, group, log>>
    /\ UNCHANGED <<scene, lightstates, scene_active, pushFailed, fetchFailed,
                   panic, live>>
    /\ UNCHANGED passVars
    /\ UNCHANGED auxVars
    /\ UNCHANGED pushes

\* The closure of for_each returns: its locals are gone.
EndScene ==
    /\ pc = "scene_done"
    /\ pc' = "next_scene"
    /\ FreshScene
    /\ UNCHANGED <<panic, live>>
    /\ UNCHANGED passVars
    /\ UNCHANGED auxVars

\* thread::sleep(next_step - now), then the next iteration of the loop.
CycleSleep ==
    /\ pc = "cycle_sleep"
    /\ pc' = "loop"
    /\ FreshPass
    /\ UNCHANGED <<panic, live>>
    /\ UNCHANGED sceneVars
    /\ UNCHANGED auxVars

Next ==
    \/ LoopTop
    \/ GetAllScenes
    \/ NextScene
    \/ GetSceneWithStates
    \/ DetectActive
    \/ UpdateScene
    \/ SleepAfterUpdate
    \/ RecallIfActive
    \/ NextGroup
    \/ EndScene
    \/ CycleSleep

Spec == Init /\ [][Next]_vars

\* ------------------------------------------------- the detector on its own
\* scene_is_active applied to every stored scene and every live state of its
\* lights, all get_light requests answered.
InitActive ==
    /\ pc = "detector"
    /\ lightstates \in LightStatesOver(StoredStates)
    /\ live \in [DOMAIN lightstates -> {Ok(st) : st \in LiveStates}]
    /\ scene_active = None
    /\ listFailed = FALSE
    /\ idx = 0
    /\ sceneErrSeen = FALSE
    /\ scene = NoScene
    /\ stage = 0
    /\ pushFailed = {}
    /\ gidx = 0
    /\ group = NoGroup
    /\ log = <<>>
    /\ fetchFailed = FALSE
    /\ panic = ""
    /\ pushes = <<>>
    /\ NoCall
    /\ Booted
    /\ ClockUnused

Detect ==
    /\ pc = "detector"
    /\ scene_active' = Some(SceneIsActive(lightstates, live).active)
    /\ pc' = "detected"
    /\ UNCHANGED <<scene, lightstates, live, stage, pushFailed, gidx, group,
                   log, fetchFailed, panic>>
    /\ UNCHANGED passVars
    /\ UNCHANGED auxVars
    /\ UNCHANGED pushes

NextActive == Detect

SpecActive == InitActive /\ [][NextActive]_vars

\* ------------------------------------------------- functions on their own
\* The reconciler is not running: every variable of the loop is as main
\* leaves it before the first pass.
Idle ==
    /\ listFailed = FALSE
    /\ idx = 0
    /\ sceneErrSeen = FALSE
    /\ scene = NoScene
    /\ lightstates = NoStates
    /\ stage = 0
    /\ scene_active = None
    /\ pushFailed = {}
    /\ gidx = 0
    /\ group = NoGroup
    /\ log = <<>>
    /\ fetchFailed = FALSE
    /\ panic = ""
    /\ live = NoStates
    /\ pushes = <<>>

loopVars == <<passVars, sceneVars, panic, live>>

\* now.hour() as u8
Hours == 0..23

\* The Transitions fields target_brightness reads; brightness values are
\* f64 fractions of full brightness, kept in thousandths.
TransitionsInputs ==
    [deep_night_start_hour : Hours,
     deep_night_end_hour : Hours,
     deep_night_brightness : {0},
     day_brightness : {1000},
     night_brightness : {700}]

\* The else branch of target_brightness: sigmoid * (day - night) + night.  The
\* sigmoid of the scaled sun altitude is an input, in thousandths.
SunBrightness(transitions, sigmoid) ==
    (sigmoid * (transitions.day_brightness - transitions.night_brightness))
        \div 1000
    + transitions.night_brightness

TargetBrightness(transitions, sigmoid, hour) ==
    IF \/ hour >= transitions.deep_night_start_hour
       \/ hour < transitions.deep_night_end_hour
    THEN transitions.deep_night_brightness
    ELSE SunBrightness(transitions, sigmoid)

\* target_brightness applied on its own to every window, hour and two sun
\* altitudes.
InitBrightness ==
    /\ pc = "target_brightness"
    /\ args \in {Some(a) : a \in [transitions : TransitionsInputs,
                                  sigmoid : {100, 900},
                                  hour : Hours]}
    /\ ret = None
    /\ Idle
    /\ Booted
    /\ ClockUnused

CallTargetBrightness ==
    /\ pc = "target_brightness"
    /\ ret' = Some(TargetBrightness(args[1].transitions, args[1].sigmoid,
                                    args[1].hour))
    /\ pc' = "returned"
    /\ UNCHANGED <<args, loopVars, bootVars, clockVars>>

NextBrightness == CallTargetBrightness

SpecBrightness == InitBrightness /\ [][NextBrightness]_vars

\* rotate applied on its own: twice in a row, once by the sum, once by a
\* full turn.
InitRotate ==
    /\ pc = "rotate"
    /\ args \in {Some(x) : x \in [t : LightTargets, a : Angles, b : Angles]}
    /\ ret = None
    /\ Idle
    /\ Booted
    /\ ClockUnused

CallRotate ==
    /\ pc = "rotate"
    /\ ret' = Some([twice |-> Rotate(Rotate(args[1].t, args[1].a), args[1].b),
                    once |-> Rotate(args[1].t, args[1].a + args[1].b),
                    turn |-> Rotate(args[1].t, Period)])
    /\ pc' = "returned"
    /\ UNCHANGED <<args, loopVars, bootVars, clockVars>>

NextRotate == CallRotate

SpecRotate == InitRotate /\ [][NextRotate]_vars

\* Targets whose oscillation stays in range, leaves it below and leaves it
\* above, for brightness and for mired.
LightTargetsAnyAmplitude ==
    [bri : {0, 700, 1000},
     mired : {175, 417, 65500},
     bri_phase : Phases,
     mired_phase : Phases,
     bri_amplitude : {0, 30, 300},
     mired_amplitude : {0, 50, 70000}]

InitWire ==
    /\ pc = "wire"
    /\ args \in {Some(x) : x \in [target : LightTargetsAnyAmplitude]}
    /\ ret = None
    /\ Idle
    /\ Booted
    /\ ClockUnused

\* bri() and ct() of one target, as update_scene calls them for a push.
CallBriCt ==
    /\ pc = "wire"
    /\ ret' = Some([bri |-> Bri(args[1].target), ct |-> Ct(args[1].target)])
    /\ pc' = "returned"
    /\ UNCHANGED <<args, loopVars, bootVars, clockVars>>

NextWire == CallBriCt

SpecWire == InitWire /\ [][NextWire]_vars

\* update_scene applied on its own to a scene and the target of the pass;
\* what it hands to the bridge for each light is kept in pushes.
InitUpdateScene ==
    /\ pc = "update_scene"
    /\ scene \in {e \in SceneEntries : IsManaged(e)}
    /\ lightstates \in LightStatesOver(StoredStates)
    /\ args \in {Some(x) : x \in [light_target : PassTargets]}
    /\ ret = None
    /\ listFailed = FALSE
    /\ idx = 0
    /\ sceneErrSeen = FALSE
    /\ stage = 0
    /\ scene_active = None
    /\ pushFailed = {}
    /\ gidx = 0
    /\ group = NoGroup
    /\ log = <<>>
    /\ fetchFailed = FALSE
    /\ panic = ""
    /\ live = NoStates
    /\ pushes = <<>>
    /\ Booted
    /\ ClockUnused

CallUpdateScene ==
    /\ pc = "update_scene"
    /\ \E result \in [DOMAIN lightstates -> BOOLEAN] :
          LET calls == UpdateSceneCalls(scene.lights, lightstates, result) IN
          /\ log' = calls
          /\ pushFailed' = {calls[i].id : i \in {j \in DOMAIN calls : ~result[calls[j].id]}}
          /\ pushes' = [i \in DOMAIN calls |->
                            Push(calls[i].id, scene.lights, lightstates,
                                 args[1].light_target)]
    /\ pc' = "returned"
    /\ UNCHANGED <<scene, lightstates, stage, scene_active, gidx, group,
                   fetchFailed, panic, live>>
    /\ UNCHANGED <<passVars, auxVars>>

NextUpdateScene == CallUpdateScene

SpecUpdateScene == InitUpdateScene /\ [][NextUpdateScene]_vars

\* ------------------------------------------------------------------- main
\* Duration::from_secs(15), the length of a cycle.
CycleSecs == 15

\* Duration::from_secs(5), the wait before register_user is tried again.
RetrySecs == 5

\* Longest time, in seconds, the work of one cycle takes.
MaxWork == 17

\* Longest time, in seconds, thread::sleep returns late.
MaxOversleep == 1

\* What Config::from_file finds at Config::path().
ConfigFiles == {"unreadable", "malformed", "no_hue", "with_hue"}

\* The exit status the parent sees: the low eight bits of the code.
ExitStatus(code) == code % 256

\* The exit status of a process whose main thread panicked.
PanicStatus == 101

\* The Result of setup_and_get_config.
SetupOk == Some([ok |-> TRUE, err |-> ""])

SetupErr(e) == Some([ok |-> FALSE, err |-> e])

\* Faulty variant: main logs the error and goes on to the loop.
MainOnErrContinue == "run"

\* The Err arm of main: error!(..) and std::process::exit(-1).
MainOnErr == "exited"

\* A ? of setup_and_get_config propagates an error, main exits on it.
SetupFails(e) ==
    /\ ret' = SetupErr(e)
    /\ pc' = MainOnErr
    /\ exit_status' = Some(ExitStatus(-1))

\* Faulty variant: get_hue_config gives up when the button is not pressed.
AfterLinkButtonNotPressedGiveUp == "exited"

\* The LinkButtonNotPressed arm of get_hue_config: println, sleep, loop again.
AfterLinkButtonNotPressed == "retry_sleep"

\* What the bridge answers to register_user.  A pressed button stays pressed
\* until an attempt sees it: the bridge keeps it for longer than RetrySecs.
RegisterAnswers(pressed) ==
    IF pressed THEN {"ok", "other"} ELSE {"LinkButtonNotPressed", "other"}

\* Faulty variant: the time left is a signed difference, never an error.
DurationSinceSigned(later, earlier) == [ok |-> TRUE, value |-> later - earlier]

\* SystemTime::duration_since: Err when earlier is after later.
DurationSince(later, earlier) ==
    IF earlier <= later
    THEN [ok |-> TRUE, value |-> later - earlier]
    ELSE [ok |-> FALSE, value |-> earlier - later]

UnwrapOr(result, default) == IF result.ok THEN result.value ELSE default

InitMain ==
    /\ pc = "from_file"
    /\ config \in ConfigFiles
    /\ hue = None
    /\ linkPressed = FALSE
    /\ answer = ""
    /\ exit_status = None
    /\ Idle
    /\ NoCall
    /\ ClockUnused

\* Config::from_file()?: an unreadable file reads as "", which parses to the
\* defaults with hue = None; only text that is not valid TOML is an error.
FromFile ==
    /\ pc = "from_file"
    /\ IF config = "malformed"
       THEN /\ SetupFails("from_file")
            /\ UNCHANGED hue
       ELSE /\ hue' = IF config = "with_hue" THEN Some("file") ELSE None
            /\ pc' = IF config = "with_hue" THEN "write_file" ELSE "discover"
            /\ UNCHANGED <<ret, exit_status>>
    /\ UNCHANGED <<config, linkPressed, answer, args, loopVars, clockVars>>

\* let ip = discover().pop().unwrap(): both unwraps can panic.
Discover ==
    /\ pc = "discover"
    /\ \E ips \in {"discover_upnp", "pop", "found"} :
          IF ips = "found"
          THEN /\ pc' = "register_user"
               /\ UNCHANGED <<panic, exit_status>>
          ELSE /\ pc' = "terminated"
               /\ panic' = ips
               /\ exit_status' = Some(PanicStatus)
    /\ UNCHANGED <<config, hue, linkPressed, answer, fnVars, passVars,
                   sceneVars, live, clockVars>>

\* One turn of the loop of get_hue_config, up to its return or its sleep.
RegisterUser ==
    /\ pc = "register_user"
    /\ \E a \in RegisterAnswers(linkPressed) :
          /\ answer' = a
          /\ CASE a = "ok" ->
                    /\ hue' = Some("paired")
                    /\ pc' = "write_file"
                    /\ UNCHANGED <<ret, exit_status>>
               [] a = "LinkButtonNotPressed" ->
                    /\ pc' = AfterLinkButtonNotPressed
                    /\ UNCHANGED <<hue, ret, exit_status>>
               [] OTHER ->
                    /\ SetupFails("register_user")
                    /\ UNCHANGED hue
    /\ slept' = None
    /\ UNCHANGED <<config, linkPressed, args, loopVars, now, next_step,
                   prev_start>>

\* thread::sleep(Duration::from_secs(5)) of the LinkButtonNotPressed arm.
RetrySleep ==
    /\ pc = "retry_sleep"
    /\ slept' = Some(RetrySecs)
    /\ pc' = "register_user"
    /\ UNCHANGED <<bootVars, fnVars, loopVars, now, next_step, prev_start>>

\* The user presses the link button of the bridge.
PressLink ==
    /\ pc \in {"from_file", "discover", "register_user", "retry_sleep"}
    /\ ~linkPressed
    /\ linkPressed' = TRUE
    /\ UNCHANGED <<pc, config, hue, answer, exit_status, fnVars, loopVars,
                   clockVars>>

\* config.write_file()?, then Ok(config).
WriteFile ==
    /\ pc = "write_file"
    /\ \E written \in BOOLEAN :
          IF written
          THEN /\ ret' = SetupOk
               /\ pc' = "run"
               /\ UNCHANGED exit_status
          ELSE SetupFails("write_file")
    /\ UNCHANGED <<config, hue, linkPressed, answer, args, loopVars, clockVars>>

\* The top of the loop of main.  Time is counted from the start of the
\* current cycle, so the start of the cycle before lies at -now.
StartCycle ==
    /\ pc = "run"
    /\ prev_start' = IF next_step = 0 THEN None ELSE Some(-now)
    /\ now' = 0
    /\ next_step' = now' + CycleSecs
    /\ slept' = None
    /\ pc' = "work"
    /\ UNCHANGED <<bootVars, fnVars, loopVars>>

\* LightTarget::new, get_all_scenes and update_scenes: the work of one cycle,
\* which takes some time and ends in Ok, in a logged Err or in a panic of an
\* unwrap of update_scenes.
Reconcile ==
    /\ pc = "work"
    /\ \E d \in 0..MaxWork,
          outcome \in {"ok", "err", "get_light", "get_all_groups"} :
          /\ now' = now + d
          /\ log' = <<Call("get_all_scenes", 0)>>
          /\ IF outcome \in {"ok", "err"}
             THEN /\ pc' = "cycle_end"
                  /\ UNCHANGED <<panic, exit_status>>
             ELSE /\ pc' = "terminated"
                  /\ panic' = outcome
                  /\ exit_status' = Some(PanicStatus)
    /\ UNCHANGED <<config, hue, linkPressed, answer, fnVars, passVars, scene,
                   lightstates, stage, scene_active, pushFailed, gidx, group,
                   fetchFailed, pushes, live, next_step, slept, prev_start>>

\* let sleep = next_step.duration_since(SystemTime::now()).unwrap_or(0 s)
ComputeSleep ==
    /\ pc = "cycle_end"
    /\ slept' = Some(UnwrapOr(DurationSince(next_step, now), 0))
    /\ pc' = "sleeping"
    /\ UNCHANGED <<bootVars, fnVars, loopVars, now, next_step, prev_start>>

\* thread::sleep(sleep): returns after at least the duration.
ThreadSleep ==
    /\ pc = "sleeping"
    /\ \E late \in 0..MaxOversleep : now' = now + slept[1] + late
    /\ pc' = "run"
    /\ UNCHANGED <<bootVars, fnVars, loopVars, next_step, slept, prev_start>>

NextMain ==
    \/ FromFile
    \/ Discover
    \/ RegisterUser
    \/ RetrySleep
    \/ PressLink
    \/ WriteFile
    \/ StartCycle
    \/ Reconcile
    \/ ComputeSleep
    \/ ThreadSleep

SpecMain == InitMain /\ [][NextMain]_vars

\* The process is scheduled: a request it makes is answered and a sleep it
\* takes ends.
SpecMainLive ==
    /\ SpecMain
    /\ WF_vars(RegisterUser)
    /\ WF_vars(RetrySleep)

\* ------------------------------------------------------------------ claims
Ops(op) == {i \in DOMAIN log : log[i].op = op}
CallIds(op) == {log[i].id : i \in Ops(op)}

MarkerUpper == <<"D", "A", "Y", "S", "H", "I", "F", "T">>

\* The name holds the marker, each letter in either case.
HasMarker(name) ==
    \E i \in 0..(Len(name) - Len(Marker)) :
        \A k \in 1..Len(Marker) : name[i + k] \in {Marker[k], MarkerUpper[k]}

\* C1: a scene is only ever mutated (set_light_state_in_scene) or recalled
\* (recall_scene_in_group) when its listed name holds "dayshift" in any case
\* and its recycle flag is false.
C1_OnlyManagedScenesTouched ==
    (Ops("set_light_state_in_scene") \cup Ops("recall_scene_in_group") # {})
        => (HasMarker(scene.name) /\ scene.recycle = FALSE)

C1_Witness ==
    /\ Ops("set_light_state_in_scene") # {}
    /\ Ops("recall_scene_in_group") # {}
    /\ ~Contains(scene.name, Marker)

Within(a, b, tol) == a - b < tol /\ b - a < tol

\* C2: a field the stored state omits is "don't care": whenever every field
\* that is specified matches the live state of its light (bri within 6, ct
\* within 40, on equal), scene_is_active answers true.
C2_OmittedFieldNeverMismatches ==
    (pc = "detected"
        /\ \A id \in DOMAIN lightstates :
              LET ls == lightstates[id]
                  tl == live[id].state
              IN  /\ (ls.bri # None => Within(ls.bri[1], tl.bri, 6))
                  /\ ((ls.ct # None /\ tl.ct # None) => Within(ls.ct[1], tl.ct[1], 40))
                  /\ (ls.on # None => ls.on[1] = tl.on))
        => scene_active = Some(TRUE)

AllSpecified ==
    \A id \in DOMAIN lightstates :
        /\ lightstates[id].bri # None
        /\ lightstates[id].ct # None
        /\ lightstates[id].on # None

\* C3: for a scene whose stored states specify bri, ct and on, scene_is_active
\* answers true exactly when every stored light has |bri - live bri| < 6,
\* |ct - live ct| < 40 for the ct its light reports, and on = live on.
C3_ActiveIffAllWithinTolerance ==
    (pc = "detected" /\ AllSpecified)
        => (scene_active = Some(TRUE)
              <=> \A id \in DOMAIN lightstates :
                     LET ls == lightstates[id]
                         tl == live[id].state
                     IN  /\ Within(ls.bri[1], tl.bri, 6)
                         /\ (tl.ct # None => Within(ls.ct[1], tl.ct[1], 40))
                         /\ ls.on[1] = tl.on)

\* Two lights, the first an exact match, the second 6 off in brightness only.
C3_Witness ==
    /\ pc = "detected"
    /\ AllSpecified
    /\ DOMAIN lightstates = {1, 2}
    /\ live[1].state = [bri |-> 100, ct |-> Some(300), on |-> TRUE]
    /\ live[2].state = [bri |-> 94, ct |-> Some(300), on |-> TRUE]
    /\ scene_active = Some(FALSE)

\* C4: among the requests sent for one scene, no get_light follows a
\* set_light_state_in_scene.
C4_ReadsBeforePushes ==
    \A i, j \in DOMAIN log :
        (i < j /\ log[i].op = "set_light_state_in_scene") => log[j].op # "get_light"

C4_Witness ==
    /\ Ops("get_light") # {}
    /\ Ops("set_light_state_in_scene") # {}

C6_GetLightFailureSkipsScene ==
    panic = "get_light" => pc # "terminated"

\* C7: a get_all_groups that fails does not end the process.
C7_GroupFetchFailureLoopContinues ==
    panic = "get_all_groups" => pc # "terminated"

\* C8: after get_all_scenes fails nothing is requested for any scene in that
\* cycle, and the loop is at its sleep, from where the next cycle starts.
C8_ListFailureSkipsCycle ==
    listFailed =>
        /\ pc = "cycle_sleep"
        /\ idx = 0
        /\ scene = NoScene
        /\ log = <<>>
        /\ ENABLED CycleSleep

C8_Witness ==
    /\ listFailed
    /\ pc = "cycle_sleep"

\* C9: after get_scene_with_states fails for a scene, that request is the only
\* one sent for it and the iterator goes on to the next scene; every scene
\* that passes the filters has its detail requested; the pass only ends when
\* the iterator is exhausted.
C9_SceneFetchFailureSkipsOnlyThatScene ==
    /\ fetchFailed =>
          /\ pc = "scene_done"
          /\ log = <<Call("get_scene_with_states", idx)>>
          /\ ENABLED EndScene
    /\ (HasMarker(scene.name) /\ ~scene.recycle /\ pc # "get_scene")
          => (log # <<>> /\ log[1] = Call("get_scene_with_states", idx))
    /\ pc \in {"next_scene", "cycle_sleep", "loop", "get_all_scenes"}
          => (scene = NoScene /\ log = <<>>)

\* A scene is being rewritten after an earlier scene of the pass failed.
C9_Witness ==
    /\ sceneErrSeen
    /\ ~fetchFailed
    /\ Ops("set_light_state_in_scene") # {}

\* C10: a failed set_light_state_in_scene does not end update_scene or the
\* scene: every light with a stored state that the lookup finds in the member
\* list gets exactly one push, and a scene detected active still has its
\* groups fetched for the recall.
C10_PushFailureDoesNotStopScene ==
    pushFailed # {} =>
        /\ CallIds("set_light_state_in_scene")
              = {id \in DOMAIN lightstates : BinarySearch(scene.lights, id).found}
        /\ Cardinality(Ops("set_light_state_in_scene"))
              = Cardinality(CallIds("set_light_state_in_scene"))
        /\ \A id \in DOMAIN lightstates \cap Range(scene.lights) :
              (\A i \in 1..(Len(scene.lights) - 1) : scene.lights[i] < scene.lights[i + 1])
                  => id \in CallIds("set_light_state_in_scene")
        /\ (scene_active = Some(TRUE) /\ pc # "body") => Ops("get_all_groups") # {}

\* The push of light 1 failed, light 2 was pushed after it, the scene recalled.
C10_Witness ==
    /\ pushFailed = {1}
    /\ 2 \in CallIds("set_light_state_in_scene")
    /\ Ops("recall_scene_in_group") # {}

\* update_scene has returned for the current scene: the 150 ms sleep that
\* follows it has been taken.
UpdateSceneReturned == Ops("sleep") # {}

\* C15: once update_scene has returned, every light that has a stored state and
\* whose id appears in the member list, in whatever order the list stores the
\* ids, has received exactly one push; the lights without a push are those
\* whose id is absent from the member list.
C15_EveryMemberPushedOnceAnyOrder ==
    UpdateSceneReturned =>
        \A id \in DOMAIN lightstates :
            Cardinality({i \in Ops("set_light_state_in_scene") : log[i].id = id})
                = IF id \in Range(scene.lights) THEN 1 ELSE 0

\* C17: no two set_light_state_in_scene calls of one scene are issued back to
\* back; a delay separates consecutive pushes.
C17_DelayBetweenConsecutivePushes ==
    \A i \in DOMAIN log :
        (i + 1 \in DOMAIN log /\ log[i].op = "set_light_state_in_scene")
            => log[i + 1].op # "set_light_state_in_scene"

\* C18: within one scene of one pass no push follows the fetch of the group
\* list or a recall, and when the group list is fetched every push update_scene
\* makes for the scene has been made.
C18_PushesBeforeGroupFetchAndRecall ==
    /\ \A i, j \in DOMAIN log :
          (i < j /\ log[i].op \in {"get_all_groups", "recall_scene_in_group"})
              => log[j].op # "set_light_state_in_scene"
    /\ Ops("get_all_groups") # {} =>
          CallIds("set_light_state_in_scene")
              = {id \in DOMAIN lightstates : BinarySearch(scene.lights, id).found}

\* Two lights were pushed and the scene was then recalled on a group.
C18_Witness ==
    /\ Cardinality(Ops("set_light_state_in_scene")) = 2
    /\ Ops("recall_scene_in_group") # {}

\* The hour lies in the window [start, end) of the 24-hour clock, a window
\* with start > end wrapping past midnight.
InDeepNightWindow(transitions, hour) ==
    IF transitions.deep_night_start_hour <= transitions.deep_night_end_hour
    THEN /\ transitions.deep_night_start_hour <= hour
         /\ hour < transitions.deep_night_end_hour
    ELSE \/ hour >= transitions.deep_night_start_hour
         \/ hour < transitions.deep_night_end_hour

\* C11: for every start and end hour and every hour of the day,
\* target_brightness returns deep_night_brightness when the hour lies inside
\* the window [start, end) and the sun-based value when it lies outside.
C11_DeepNightOnlyInsideWindow ==
    (pc = "returned" /\ args # None /\ "hour" \in DOMAIN args[1]) =>
        ret = Some(IF InDeepNightWindow(args[1].transitions, args[1].hour)
                   THEN args[1].transitions.deep_night_brightness
                   ELSE SunBrightness(args[1].transitions, args[1].sigmoid))

\* Two phases are the same modulo one full period.
SamePhase(x, y) == (x - y) % Period = 0

\* C12: rotate is additive and periodic on both phases: rotating by a and then
\* by b gives the same bri_phase and mired_phase, modulo one period, as
\* rotating by a + b, and rotating by a full period leaves both phases
\* unchanged modulo the period.
C12_RotateAdditiveAndPeriodic ==
    (pc = "returned" /\ args # None /\ "a" \in DOMAIN args[1]) =>
        /\ SamePhase(ret[1].twice.bri_phase, ret[1].once.bri_phase)
        /\ SamePhase(ret[1].twice.mired_phase, ret[1].once.mired_phase)
        /\ SamePhase(ret[1].turn.bri_phase, args[1].t.bri_phase)
        /\ SamePhase(ret[1].turn.mired_phase, args[1].t.mired_phase)

\* Two rotations passed the end of the period and came back: the phase after
\* them is not the number rotate(a + b) gives, only the same modulo the period.
C12_Witness ==
    /\ pc = "returned" /\ args # None /\ "a" \in DOMAIN args[1]
    /\ args[1].a > 0 /\ args[1].b < 0
    /\ ret[1].twice.bri_phase # ret[1].once.bri_phase
    /\ ret[1].twice.mired_phase # ret[1].once.mired_phase

\* C13: for every LightTarget bri() lies in 0..255 and ct() in 0..65535; a
\* formula value below 0 yields 0, a value above the maximum yields the
\* maximum, and a value in range yields its integer part.
C13_BriAndCtClamped ==
    (pc = "returned" /\ args # None /\ "target" \in DOMAIN args[1]) =>
        LET b == BriValue(args[1].target)
            c == CtValue(args[1].target)
        IN  /\ ret[1].bri \in 0..255
            /\ ret[1].ct \in 0..65535
            /\ b < 0 => ret[1].bri = 0
            /\ b > 255 * 1000 => ret[1].bri = 255
            /\ (b >= 0 /\ b <= 255 * 1000) => ret[1].bri = b \div 1000
            /\ c < 0 => ret[1].ct = 0
            /\ c > 65535 * 1000 => ret[1].ct = 65535
            /\ (c >= 0 /\ c <= 65535 * 1000) => ret[1].ct = c \div 1000

\* The brightness formula overshot 255 while the mired formula fell below 0.
C13_Witness ==
    /\ pc = "returned" /\ args # None /\ "target" \in DOMAIN args[1]
    /\ BriValue(args[1].target) > 255 * 1000
    /\ CtValue(args[1].target) < 0
    /\ ret[1] = [bri |-> 255, ct |-> 0]

\* C16: in a scene with N member lights, the light at position i of the member
\* list is pushed the shared target rotated by i/N of a period: the phases of
\* its target are those of the shared target advanced by i/N of a period, two
\* pushes of different lights are (i - j)/N of a period apart, never at the
\* same offset, and base and amplitude are those of the shared target.
C16_RotationEvenlySpaced ==
    LET N == Len(scene.lights) IN
    \A k \in DOMAIN pushes :
        LET p == pushes[k] IN
        /\ scene.lights[p.idx + 1] = p.light
        /\ p.rotation = [num |-> p.idx, den |-> N]
        /\ (N * (p.this_light_target.bri_phase - p.light_target.bri_phase)
               - p.idx * Period) % (N * Period) = 0
        /\ (N * (p.this_light_target.mired_phase - p.light_target.mired_phase)
               - p.idx * Period) % (N * Period) = 0
        /\ p.this_light_target.bri = p.light_target.bri
        /\ p.this_light_target.mired = p.light_target.mired
        /\ p.this_light_target.bri_amplitude = p.light_target.bri_amplitude
        /\ p.this_light_target.mired_amplitude = p.light_target.mired_amplitude
        /\ \A l \in DOMAIN pushes :
              /\ pushes[l].light_target = p.light_target
              /\ (N * (p.this_light_target.bri_phase
                          - pushes[l].this_light_target.bri_phase)
                     - (p.idx - pushes[l].idx) * Period) % (N * Period) = 0
              /\ p.light # pushes[l].light
                    => ~SamePhase(p.this_light_target.bri_phase,
                                  pushes[l].this_light_target.bri_phase)

\* Every member of a scene of NumLights lights was pushed, the last at the
\* last position.
C16_Witness ==
    /\ Len(pushes) = NumLights
    /\ Len(scene.lights) = NumLights
    /\ \E k \in DOMAIN pushes : pushes[k].idx = NumLights - 1

\* main has entered the loop.
Running == pc \in {"run", "work", "cycle_end", "sleeping"}

\* C14, as stated: when the configuration cannot be loaded or parsed, when
\* credentials cannot be acquired or when the configuration cannot be written
\* back, the process never enters the loop and issues no request.
C14_AnyLoadFailureIsFatal ==
    (\/ config \in {"unreadable", "malformed"}
     \/ (ret # None /\ ~ret[1].ok)
     \/ panic \in {"discover_upnp", "pop"})
        => (~Running /\ log = <<>>)

\* C14, amended: a configuration that cannot be parsed, credentials that
\* cannot be acquired and a configuration that cannot be written back end the
\* process with a non-zero status before the loop and before any request; the
\* loop is entered only with credentials, after setup_and_get_config returned
\* Ok.  A file that cannot be read is loaded as the empty configuration and
\* ends the process only through one of these three failures.
C14_BootstrapFailureIsFatal ==
    /\ (\/ config = "malformed"
        \/ (ret # None /\ ~ret[1].ok)
        \/ panic \in {"discover_upnp", "pop"})
          => (~Running /\ log = <<>>)
    /\ ((ret # None /\ ~ret[1].ok) \/ panic \in {"discover_upnp", "pop"})
          => (pc \in {"exited", "terminated"}
                 /\ exit_status # None /\ exit_status[1] # 0)
    /\ Running => (ret = SetupOk /\ hue # None)
    /\ log # <<>> => ret = SetupOk

\* Pairing succeeded after a file that could not be read, and the write-back
\* failed: the process has exited with status 255.
C14_Witness ==
    /\ config = "unreadable"
    /\ hue = Some("paired")
    /\ ret = SetupErr("write_file")
    /\ exit_status = Some(255)

\* C19: each cycle sets its deadline to its start + 15 s and sleeps for
\* max(0, deadline - time at the end of the work): the sleep is never negative
\* and is zero when the cycle overran; two consecutive cycle starts are at
\* least 15 s apart; and a finished cycle is always followed by another: the
\* loop can take its next step from every state of a cycle that has finished
\* its work.
C19_DeadlineSleepAndNoTerminalState ==
    /\ pc = "work" => next_step = now + CycleSecs
    /\ pc = "sleeping" =>
          /\ slept[1] >= 0
          /\ slept[1] = IF next_step - now > 0 THEN next_step - now ELSE 0
          /\ now >= next_step => slept[1] = 0
    /\ (pc = "work" /\ prev_start # None) => now - prev_start[1] >= CycleSecs
    /\ pc = "cycle_end" => ENABLED ComputeSleep
    /\ pc = "sleeping" => ENABLED ThreadSleep
    /\ pc = "run" => ENABLED StartCycle

\* A cycle after the first overran its deadline and is about to sleep 0 s.
C19_Witness ==
    /\ pc = "sleeping"
    /\ prev_start # None
    /\ now > next_step
    /\ slept = Some(0)

\* Pairing is under way: get_hue_config is in its loop.
Pairing == pc \in {"register_user", "retry_sleep"}

\* C20: while the bridge answers LinkButtonNotPressed get_hue_config stays in
\* its loop, sleeping 5 s before the next attempt; the first successful
\* registration yields credentials and the first other failure an error; and
\* once the link button is pressed during pairing, pairing ends, with
\* credentials unless another error occurred.
C20_PairingRetriesUntilPressed ==
    /\ [](answer = "LinkButtonNotPressed" =>
              /\ pc \in {"retry_sleep", "register_user"}
              /\ pc = "register_user" => slept = Some(RetrySecs)
              /\ hue = None /\ ret = None /\ exit_status = None)
    /\ [](answer = "ok" => (hue = Some("paired") /\ ret # SetupErr("register_user")))
    /\ [](answer = "other" => (hue = None /\ ret = SetupErr("register_user")))
    /\ [](Pairing => hue = None)
    /\ ((Pairing /\ linkPressed) ~> (answer = "ok" \/ answer = "other"))

\* The bridge answered LinkButtonNotPressed, the 5 s were waited, and the
\* button has been pressed since: the next attempt is due.
C20_Witness ==
    /\ pc = "register_user"
    /\ answer = "LinkButtonNotPressed"
    /\ slept = Some(RetrySecs)
    /\ linkPressed

\* get_scene_with_states answered for the current scene with a snapshot that
\* holds no stored light state.
EmptySnapshot ==
    /\ Ops("get_scene_with_states") # {}
    /\ ~fetchFailed
    /\ DOMAIN lightstates = {}

\* C21: a managed scene whose snapshot has no stored light states is reported
\* active without any get_light; no push is made for it, and of the groups
\* listed for it exactly those not flagged recycle whose light list equals the
\* scene's are recalled.
C21_EmptySnapshotIsActiveAndRecalled ==
    EmptySnapshot =>
        /\ IsManaged(scene)
        /\ Ops("get_light") = {}
        /\ Ops("set_light_state_in_scene") = {}
        /\ scene_active \in {None, Some(TRUE)}
        /\ (pc # "body" \/ stage > 1) => scene_active = Some(TRUE)
        /\ pc = "scene_done" => Ops("get_all_groups") # {}
        /\ (pc \in {"groups", "scene_done"} /\ gidx >= 1)
              => (gidx \in CallIds("recall_scene_in_group")
                    <=> (group.recycle # Some(TRUE) /\ group.lights = scene.lights))

\* A scene with member lights but no stored light state has been recalled on
\* the first of its two groups, without a read or a push.
C21_Witness ==
    /\ EmptySnapshot
    /\ pc = "scene_done"
    /\ scene.lights # <<>>
    /\ gidx = 2
    /\ CallIds("recall_scene_in_group") = {1}
    /\ Ops("get_light") = {}
    /\ Ops("set_light_state_in_scene") = {}

====
